---- MODULE Spec2Model ----
(***************************************************************************)
(* The VirtIO socket (vsock) driver of src/device/socket/vsock.rs as a     *)
(* state machine: the single Option<ConnectionInfo>, the filled slots of   *)
(* the RX virtqueue, and one atomic action per public driver call.  The    *)
(* device (the peer) fills RX slots concurrently with the driver.          *)
(***************************************************************************)
EXTENDS Integers, Sequences, FiniteSets, TLC

VARIABLES
    connection_info,   \* Option<ConnectionInfo>: <<>> is None, <<ci>> is Some(ci)
    rx_used,           \* filled RX slots the driver has not popped yet, oldest first
    pc,                \* "ready", "wait_for_connect", "wait_for_recv", "panicked", "drop" or "dropped"
    wait_len,          \* length of the caller's buffer of the wait_for_* call in progress
    last,              \* the call that has just returned and what it returned, until the caller takes it
    credit_requests,   \* CreditRequests emitted by send since the last CreditUpdate was dispatched
    overflow_checks,   \* build profile: TRUE panics on integer overflow, FALSE wraps
    tx_faulty,         \* TRUE when the TX virtqueue may refuse a packet
    traffic,           \* the family of packets the device delivers in this run
    rx_ring,           \* the RX virtqueue: descriptors, free list, used tokens
    teardown,          \* drop(): its position, the queues the transport knows, the buffers freed
    rx_stale           \* history, kept in the runs of SpecStale: how many of the oldest
                       \* filled RX slots were filled for a connection closed since

vars == <<connection_info, rx_used, pc, wait_len, last, credit_requests,
          overflow_checks, tx_faulty, traffic, rx_ring, teardown, rx_stale>>

----------------------------------------------------------------------------
(* Bounds of the model. *)

\* The modulus of the u32 counters, standing for 2^32.
U32_RANGE == 4
\* The most filled RX slots the device keeps ahead of the driver.
MaxRx == 2
\* The longest body an RX slot holds after the header, the longest caller
\* buffer and the longest payload sent.
MaxLen == 2

----------------------------------------------------------------------------
(* Constants of the program and of the test scenario. *)

RX_QUEUE_IDX == 0
TX_QUEUE_IDX == 1
EVENT_QUEUE_IDX == 2
QUEUE_SIZE == 8
GuestCid == 66
\* size_of::<VirtioVsockHdr>(): 8 + 8 + 4 + 4 + 4 + 2 + 2 + 4 + 4 + 4.
HdrSize == 44
RX_BUFFER_SIZE == HdrSize + MaxLen

Min(a, b) == IF a < b THEN a ELSE b

HostAddr == [cid |-> 2, port |-> 1234]
OtherAddr == [cid |-> 3, port |-> 1234]
PeerAddrs == {HostAddr, OtherAddr}
GuestPort == 4321
OtherPort == GuestPort + 1
LocalPorts == {GuestPort}

----------------------------------------------------------------------------
(* Wire protocol. *)

OpNames == {"Request", "Response", "Rst", "Shutdown", "Rw", "CreditUpdate",
            "CreditRequest", "Invalid"}

\* VirtioVsockHdr::op: the operation a 16-bit code stands for.
OpOf(code) ==
    CASE code = 1 -> "Request"
      [] code = 2 -> "Response"
      [] code = 3 -> "Rst"
      [] code = 4 -> "Shutdown"
      [] code = 5 -> "Rw"
      [] code = 6 -> "CreditUpdate"
      [] code = 7 -> "CreditRequest"
      [] OTHER -> "Invalid"

\* VirtioVsockOp::X.into(): the code an operation is sent as.
OpCode(op) ==
    CASE op = "Request" -> 1
      [] op = "Response" -> 2
      [] op = "Rst" -> 3
      [] op = "Shutdown" -> 4
      [] op = "Rw" -> 5
      [] op = "CreditUpdate" -> 6
      [] op = "CreditRequest" -> 7
      [] OTHER -> 0

\* VirtioVsockHdr::source.
HdrSource(h) == [cid |-> h.src_cid, port |-> h.src_port]

\* VirtioVsockHdr::check_data_is_empty.
check_data_is_empty(h) == h.len = 0

----------------------------------------------------------------------------
(* ConnectionInfo. *)

\* ConnectionInfo { dst, src_port, ..Default::default() }.
NewConnectionInfo(destination, src_port) ==
    [dst |-> destination, src_port |-> src_port,
     peer_buf_alloc |-> 0, peer_fwd_cnt |-> 0, tx_cnt |-> 0, fwd_cnt |-> 0,
     has_pending_credit_request |-> FALSE]

\* ConnectionInfo::default(), what poll_rx_queue compares against without a connection.
DefaultConnectionInfo == NewConnectionInfo([cid |-> 0, port |-> 0], 0)

\* a - b on u32: the wrapped value, and whether the subtraction overflowed.
SubU32(a, b) == [val |-> (a - b) % U32_RANGE, overflow |-> a < b]

\* a + b on u32.
AddU32(a, b) == [val |-> (a + b) % U32_RANGE, overflow |-> a + b >= U32_RANGE]

\* The inner subtraction of peer_free: tx_cnt - peer_fwd_cnt.
peer_free_inner(ci) == SubU32(ci.tx_cnt, ci.peer_fwd_cnt)

\* ConnectionInfo::peer_free: peer_buf_alloc - (tx_cnt - peer_fwd_cnt).
peer_free(ci) ==
    LET inner == peer_free_inner(ci)
        outer == SubU32(ci.peer_buf_alloc, inner.val)
    IN  [val |-> outer.val, overflow |-> inner.overflow \/ outer.overflow]

\* new_header leaving fwd_cnt at its default.
new_header_without_fwd_cnt(ci, src_cid) ==
    [src_cid |-> src_cid, dst_cid |-> ci.dst.cid,
     src_port |-> ci.src_port, dst_port |-> ci.dst.port,
     len |-> 0, op |-> 0, buf_alloc |-> 0, fwd_cnt |-> 0]

\* new_header with the two ports exchanged.
new_header_ports_swapped(ci, src_cid) ==
    [src_cid |-> src_cid, dst_cid |-> ci.dst.cid,
     src_port |-> ci.dst.port, dst_port |-> ci.src_port,
     len |-> 0, op |-> 0, buf_alloc |-> 0, fwd_cnt |-> ci.fwd_cnt]

\* ConnectionInfo::new_header.
new_header(ci, src_cid) ==
    [src_cid |-> src_cid, dst_cid |-> ci.dst.cid,
     src_port |-> ci.src_port, dst_port |-> ci.dst.port,
     len |-> 0, op |-> 0, buf_alloc |-> 0, fwd_cnt |-> ci.fwd_cnt]

\* A packet: its header and the body bytes following it.
Packet(h, body) == [hdr |-> h, body |-> body]

----------------------------------------------------------------------------
(* The RX virtqueue and the buffers bound to it. *)

\* The indices of rx_queue_buffers, which are also the queue's tokens.
Slots == 0..(QUEUE_SIZE - 1)

\* VirtQueue::new: every descriptor free, the free list in index order.
NewQueue ==
    [desc |-> [t \in Slots |-> <<>>],
     free |-> [i \in 1..QUEUE_SIZE |-> i - 1],
     used |-> <<>>]

\* VirtQueue::add of one buffer: the first free descriptor is bound to the
\* buffer and its index is the token.
queue_add(q, buffer) ==
    IF q.free = <<>>
    THEN [err |-> "QueueFull", token |-> 0, queue |-> q]
    ELSE [err |-> "", token |-> Head(q.free),
          queue |-> [q EXCEPT !.desc[Head(q.free)] = <<buffer>>,
                              !.free = Tail(q.free)]]

\* VirtQueue::peek_used: Some(token) of the oldest used buffer.
queue_peek_used(q) == IF q.used = <<>> THEN <<>> ELSE <<Head(q.used)>>

\* VirtQueue::pop_used(token): the descriptor goes back to the head of the
\* free list.
queue_pop_used(q, token) ==
    [q EXCEPT !.used = Tail(q.used),
              !.desc[token] = <<>>,
              !.free = <<token>> \o q.free]

\* A lookup that takes the buffer after the token's.
rx_queue_buffer_next(token) == (token + 1) % QUEUE_SIZE

\* rx_queue_buffers[usize::from(token)].
rx_queue_buffer(token) == token

\* The loop of new() that adds the QUEUE_SIZE buffers from index `i` on:
\* the queue afterwards, and whether assert_eq!(i, token) failed.
RECURSIVE add_rx_buffers(_, _)
add_rx_buffers(q, i) ==
    IF i >= QUEUE_SIZE
    THEN [queue |-> q, fatal |-> FALSE]
    ELSE LET a == queue_add(q, i)
         IN  IF a.err # "" \/ a.token # i
             THEN [queue |-> a.queue, fatal |-> TRUE]
             ELSE add_rx_buffers(a.queue, i + 1)

\* The tokens the device may complete: outstanding and not yet used.
Available(q) ==
    { t \in Slots : q.desc[t] # <<>> /\ \A i \in 1..Len(q.used) : q.used[i] # t }

----------------------------------------------------------------------------
(* The receive path. *)

NoEvent == <<>>

\* VsockEvent { source, destination, event_type }.
VsockEvent(ci, event_type, reason, length) ==
    [source |-> ci.dst,
     destination |-> [cid |-> GuestCid, port |-> ci.src_port],
     event_type |-> event_type, reason |-> reason, length |-> length]

\* The caller's buffer before a call: `n` bytes that are no packet's bytes.
EmptyBuffer(n) == [i \in 1..n |-> 0]

\* copy_from_slice into body[0..body_length].
CopyBody(body, data) ==
    [i \in 1..Len(body) |-> IF i <= Len(data) THEN data[i] ELSE body[i]]

\* read_header_and_body: the error, or the caller's buffer with the body copied in.
read_header_and_body(pkt, body) ==
    LET body_length == pkt.hdr.len
        data_end == HdrSize + body_length
    IN  IF data_end > RX_BUFFER_SIZE
        THEN [err |-> "BufferTooShort", body |-> body]
        ELSE IF body_length > Len(body)
        THEN [err |-> "OutputBufferTooShort", body |-> body]
        ELSE [err |-> "", body |-> CopyBody(body, pkt.body)]

\* The test of poll_rx_queue that a packet belongs to the current connection.
matches_connection(header, ci) ==
    /\ HdrSource(header) = ci.dst
    /\ header.dst_cid = GuestCid
    /\ header.dst_port = ci.src_port

\* The credit update with buf_alloc and fwd_cnt exchanged.
update_peer_credit_swapped(ci, header) ==
    [ci EXCEPT !.peer_buf_alloc = header.fwd_cnt,
               !.peer_fwd_cnt = header.buf_alloc]

\* poll_rx_queue's update of the cached peer credit from a matching header.
update_peer_credit(ci, header) ==
    [ci EXCEPT !.peer_buf_alloc = header.buf_alloc,
               !.peer_fwd_cnt = header.fwd_cnt]

\* A reason that ignores which operation closed the connection.
disconnect_reason_always_reset(op) == "Reset"

\* The reason of a Disconnected event.
disconnect_reason(op) == IF op = "Rst" THEN "Reset" ELSE "Shutdown"

\* An arm that treats a packet without an event as unexpected.
loop_on_rejected(conn) ==
    [step |-> "error", conn |-> conn, err |-> "InvalidOperation", event |-> NoEvent]

\* An arm of the match that returns nothing: the loop of poll_rx_queue goes on
\* with the next slot.
loop_on(conn) ==
    [step |-> "continue", conn |-> conn, err |-> "", event |-> NoEvent]

\* An Invalid arm that goes on with the next slot.
invalid_operation_ignored(conn) ==
    [step |-> "continue", conn |-> conn, err |-> "", event |-> NoEvent]

\* The Invalid arm of the match: return Err(SocketError::InvalidOperation).
invalid_operation(conn) ==
    [step |-> "error", conn |-> conn, err |-> "InvalidOperation", event |-> NoEvent]

\* The match on the operation of a matching packet, after the credit update:
\* `conn` is self.connection_info, `ci` the loop's local copy.  step is
\* "continue", "event", "error" or "panic" (an unwrap of None, or fwd_cnt +=
\* overflowing in a build that checks overflow).  check_data_is_empty()? and
\* the Invalid arm both fail with InvalidOperation.
dispatch(conn, ci, header) ==
    LET op == OpOf(header.op)
        Out(step, c, err, ev) ==
            [step |-> step, conn |-> c, err |-> err, event |-> ev]
        NotEmpty == Out("error", conn, "InvalidOperation", NoEvent)
    IN  CASE op \in {"Request", "CreditRequest"} ->
               IF check_data_is_empty(header)
               THEN loop_on(conn)
               ELSE NotEmpty
          [] op = "Response" ->
               IF check_data_is_empty(header)
               THEN Out("event", conn, "", <<VsockEvent(ci, "Connected", "", 0)>>)
               ELSE NotEmpty
          [] op = "CreditUpdate" ->
               IF check_data_is_empty(header)
               THEN loop_on(IF conn # <<>>
                            THEN <<[ci EXCEPT !.has_pending_credit_request = FALSE]>>
                            ELSE conn)
               ELSE NotEmpty
          [] op \in {"Rst", "Shutdown"} ->
               IF check_data_is_empty(header)
               THEN Out("event", <<>>, "",
                        <<VsockEvent(ci, "Disconnected", disconnect_reason(op), 0)>>)
               ELSE NotEmpty
          [] op = "Rw" ->
               LET sum == AddU32(conn[1].fwd_cnt, header.len)
               IN  IF conn = <<>>
                   THEN Out("panic", conn, "PanicUnwrap", NoEvent)
                   ELSE IF sum.overflow /\ overflow_checks
                   THEN Out("panic", conn, "PanicFwdCnt", NoEvent)
                   ELSE Out("event", <<[conn[1] EXCEPT !.fwd_cnt = sum.val]>>, "",
                            <<VsockEvent(ci, "Received", "", header.len)>>)
          [] OTHER -> invalid_operation(conn)

\* A slot a call popped: the packet in it, what became of it, and whether no
\* descriptor of the queue referenced the buffer while the driver read it.
Popped(pkt, outcome, exclusive) ==
    [pkt |-> pkt, outcome |-> outcome, exclusive |-> exclusive]

\* pop_packet_from_rx_queue returning the result of read_header_and_body
\* at once, so that the buffer is added back only after a good decode.
pop_packet_checked_first(rx, body) ==
    LET peeked == queue_peek_used(rx.queue)
        Out(step, r, err, b, x) ==
            [step |-> step, rx |-> r, err |-> err, body |-> b, exclusive |-> x]
    IN  IF peeked = <<>>
        THEN Out("none", rx, "", body, TRUE)
        ELSE
        LET token == peeked[1]
            buffer == rx_queue_buffer(token)
            popped_queue == queue_pop_used(rx.queue, token)
            header_result == read_header_and_body(Head(rx.filled), body)
            exclusive == \A t \in Slots : popped_queue.desc[t] # <<buffer>>
            added == queue_add(popped_queue, buffer)
            after == [filled |-> Tail(rx.filled), queue |-> added.queue]
        IN  IF header_result.err # ""
            THEN Out("error", [filled |-> Tail(rx.filled), queue |-> popped_queue],
                     header_result.err, body, exclusive)
            ELSE IF added.err # ""
            THEN Out("error", after, added.err, body, exclusive)
            ELSE IF added.token # token
            THEN Out("panic", after, "PanicToken", body, exclusive)
            ELSE Out("ok", after, "", header_result.body, exclusive)

\* pop_packet_from_rx_queue on `rx`, the filled buffers (oldest first) with
\* the queue: step is "none" (nothing used), "ok" (pkt decoded, its body
\* copied into body), "error" (err) or "panic" (assert_eq!(new_token, token)
\* failed).  The buffer is added back whatever read_header_and_body returned.
pop_packet_from_rx_queue(rx, body) ==
    LET peeked == queue_peek_used(rx.queue)
        Out(step, r, err, b, x) ==
            [step |-> step, rx |-> r, err |-> err, body |-> b, exclusive |-> x]
    IN  IF peeked = <<>>
        THEN Out("none", rx, "", body, TRUE)
        ELSE
        LET token == peeked[1]
            buffer == rx_queue_buffer(token)
            popped_queue == queue_pop_used(rx.queue, token)
            header_result == read_header_and_body(Head(rx.filled), body)
            exclusive == \A t \in Slots : popped_queue.desc[t] # <<buffer>>
            added == queue_add(popped_queue, buffer)
            after == [filled |-> Tail(rx.filled), queue |-> added.queue]
        IN  IF added.err # ""
            THEN Out("error", after, added.err, body, exclusive)
            ELSE IF added.token # token
            THEN Out("panic", after, "PanicToken", body, exclusive)
            ELSE IF header_result.err # ""
            THEN Out("error", after, header_result.err, body, exclusive)
            ELSE Out("ok", after, "", header_result.body, exclusive)

\* The element of a set of one element.
TheOne(S) == CHOOSE v \in S : TRUE

\* poll_rx_queue: pops filled slots, oldest first, until the queue is empty,
\* an error, or a packet that makes an event.  `popped` lists the slots popped
\* by this call with what became of each.
RECURSIVE poll_rx_queue(_, _, _, _)

\* One round of the loop of poll_rx_queue, `pop` being what
\* pop_packet_from_rx_queue returned in it.
poll_rx_queue_round(conn, rx, body, popped, pop) ==
    LET Ret(res, c, r, b, p, err, ev) ==
            [res |-> res, conn |-> c, rx |-> r, body |-> b, popped |-> p,
             err |-> err, event |-> ev]
    IN  IF pop.step = "none"
        THEN Ret("None", conn, rx, body, popped, "", NoEvent)
        ELSE
        LET connection == IF conn # <<>> THEN conn[1] ELSE DefaultConnectionInfo
            pkt == Head(rx.filled)
        IN  IF pop.step = "panic"
            THEN Ret("Panic", conn, pop.rx, body,
                     Append(popped, Popped(pkt, "undecoded", pop.exclusive)),
                     pop.err, NoEvent)
            ELSE IF pop.step = "error"
            THEN Ret("Err", conn, pop.rx, body,
                     Append(popped, Popped(pkt, "undecoded", pop.exclusive)),
                     pop.err, NoEvent)
            ELSE IF ~matches_connection(pkt.hdr, connection)
            THEN poll_rx_queue(conn, pop.rx, pop.body,
                               Append(popped, Popped(pkt, "skipped", pop.exclusive)))
            ELSE
            LET ci == update_peer_credit(connection, pkt.hdr)
                updated == IF conn # <<>> THEN <<ci>> ELSE conn
                d == dispatch(updated, ci, pkt.hdr)
                p == Append(popped, Popped(pkt, d.step, pop.exclusive))
            IN  CASE d.step = "continue" ->
                       poll_rx_queue(d.conn, pop.rx, pop.body, p)
                  [] d.step = "event" ->
                       Ret("Event", d.conn, pop.rx, pop.body, p, "", d.event)
                  [] d.step = "error" ->
                       Ret("Err", d.conn, pop.rx, pop.body, p, d.err, NoEvent)
                  [] OTHER ->
                       Ret("Panic", d.conn, pop.rx, pop.body, p, d.err, NoEvent)

poll_rx_queue(conn, rx, body, popped) ==
    TheOne({ poll_rx_queue_round(s.conn, s.rx, s.body, s.popped, s.pop) :
               s \in {[conn |-> conn, rx |-> rx, body |-> body, popped |-> popped,
                       pop |-> pop_packet_from_rx_queue(rx, body)]} })

----------------------------------------------------------------------------
(* The record of the step just taken. *)

NoArg == [destination |-> [cid |-> 0, port |-> 0], src_port |-> 0, len |-> 0]
ConnectArg(destination, src_port) ==
    [destination |-> destination, src_port |-> src_port, len |-> 0]
LenArg(n) == [NoArg EXCEPT !.len = n]

\* op: the call; arg: its arguments; result: what it returned ("Pending" while
\* a wait_for_* call keeps spinning, one of Panics when it aborted); poll: what the
\* poll_recv it ran returned, "" when it ran none; emitted: the packets it put
\* on the TX queue; event: the event returned; buffer: the caller's buffer
\* afterwards; pre: connection_info before the call; popped: the RX slots it
\* popped.
Last(op, arg, result, poll, emitted, event, buffer, pre, popped) ==
    [op |-> op, arg |-> arg, result |-> result, poll |-> poll,
     emitted |-> emitted, event |-> event, buffer |-> buffer, pre |-> pre,
     popped |-> popped]

Simple(op, arg, result, emitted) ==
    Last(op, arg, result, "", emitted, NoEvent, <<>>, connection_info, <<>>)

\* No call has returned since the caller took the last result.
NoLast == Last("", NoArg, "", "", <<>>, NoEvent, <<>>, <<>>, <<>>)

\* The driver is between calls (or between two rounds of a wait loop).
Quiet == last = NoLast

\* What add_notify_wait_pop may answer: Ok always, an error only on a faulty queue.
TxOutcomes == IF tx_faulty THEN BOOLEAN ELSE {TRUE}

WithOp(ci, op) == [new_header(ci, GuestCid) EXCEPT !.op = OpCode(op)]

\* The payload a caller sends: `n` bytes.
Payload(n) == [i \in 1..n |-> i]

----------------------------------------------------------------------------
(* The driver's calls. *)

\* The family in which the peer sends only to a driver that has a connection,
\* so that a slot still filled at connect holds a packet of a closed one.
StaleTraffics == {"superseded"}

\* connect(destination, src_port).
Connect(destination, src_port, ok) ==
    /\ Quiet /\ pc = "ready"
    /\ IF connection_info # <<>>
       THEN /\ last' = Simple("connect", ConnectArg(destination, src_port),
                              "ConnectionExists", <<>>)
            /\ UNCHANGED <<connection_info, credit_requests, rx_stale>>
       ELSE LET new_connection_info == NewConnectionInfo(destination, src_port)
                header == WithOp(new_connection_info, "Request")
            IN  IF ok
                THEN /\ connection_info' = <<new_connection_info>>
                     /\ credit_requests' = 0
                     /\ rx_stale' = IF traffic \in StaleTraffics THEN Len(rx_used) ELSE 0
                     /\ last' = Simple("connect", ConnectArg(destination, src_port),
                                       "Ok", <<Packet(header, <<>>)>>)
                ELSE /\ last' = Simple("connect", ConnectArg(destination, src_port),
                                       "QueueError", <<>>)
                     /\ UNCHANGED <<connection_info, credit_requests, rx_stale>>
    /\ UNCHANGED <<rx_used, pc, wait_len, overflow_checks, tx_faulty, traffic, rx_ring, teardown>>

\* request_credit().
RequestCredit(ok) ==
    /\ Quiet /\ pc = "ready"
    /\ IF connection_info = <<>>
       THEN last' = Simple("request_credit", NoArg, "NotConnected", <<>>)
       ELSE IF ok
       THEN last' = Simple("request_credit", NoArg, "Ok",
                           <<Packet(WithOp(connection_info[1], "CreditRequest"), <<>>)>>)
       ELSE last' = Simple("request_credit", NoArg, "QueueError", <<>>)
    /\ UNCHANGED <<connection_info, rx_used, pc, wait_len, credit_requests,
                   overflow_checks, tx_faulty, traffic, rx_ring, teardown, rx_stale>>

\* check_peer_buffer_is_sufficient without line 272: the flag is never set.
mark_credit_requested_forgotten(ci) == ci

\* check_peer_buffer_is_sufficient: has_pending_credit_request = true.
mark_credit_requested(ci) == [ci EXCEPT !.has_pending_credit_request = TRUE]

\* The credit test with > for >=: a payload of exactly peer_free() is refused.
peer_buffer_is_sufficient_strict(free, buffer_len) == free > buffer_len

\* check_peer_buffer_is_sufficient's test: peer_free() as usize >= buffer_len.
peer_buffer_is_sufficient(free, buffer_len) == free >= buffer_len

\* send(buffer), with check_peer_buffer_is_sufficient.
Send(n, ok) ==
    /\ Quiet /\ pc = "ready"
    /\ IF connection_info = <<>>
       THEN /\ last' = Simple("send", LenArg(n), "NotConnected", <<>>)
            /\ UNCHANGED <<connection_info, pc, credit_requests>>
       ELSE
       LET ci == connection_info[1]
           free == peer_free(ci)
           len == n % U32_RANGE
           sum == AddU32(ci.tx_cnt, len)
           header == [WithOp(ci, "Rw") EXCEPT !.len = len]
       IN  IF free.overflow /\ overflow_checks
           THEN /\ pc' = "panicked"
                /\ last' = Simple("send", LenArg(n), "PanicPeerFree", <<>>)
                /\ UNCHANGED <<connection_info, credit_requests>>
           ELSE IF peer_buffer_is_sufficient(free.val, n)
           THEN IF sum.overflow /\ overflow_checks
                THEN /\ pc' = "panicked"
                     /\ last' = Simple("send", LenArg(n), "PanicTxCnt", <<>>)
                     /\ UNCHANGED <<connection_info, credit_requests>>
                ELSE /\ connection_info' = <<[ci EXCEPT !.tx_cnt = sum.val]>>
                     /\ last' = Simple("send", LenArg(n),
                                       IF ok THEN "Ok" ELSE "QueueError",
                                       IF ok THEN <<Packet(header, Payload(n))>>
                                       ELSE <<>>)
                     /\ UNCHANGED <<pc, credit_requests>>
           ELSE IF ~ci.has_pending_credit_request
           THEN IF ok
                THEN /\ connection_info' = <<mark_credit_requested(ci)>>
                     /\ credit_requests' = credit_requests + 1
                     /\ last' = Simple("send", LenArg(n),
                                       "InsufficientBufferSpaceInPeer",
                                       <<Packet(WithOp(ci, "CreditRequest"), <<>>)>>)
                     /\ UNCHANGED pc
                ELSE /\ last' = Simple("send", LenArg(n), "QueueError", <<>>)
                     /\ UNCHANGED <<connection_info, pc, credit_requests>>
           ELSE /\ last' = Simple("send", LenArg(n),
                                  "InsufficientBufferSpaceInPeer", <<>>)
                /\ UNCHANGED <<connection_info, pc, credit_requests>>
    /\ UNCHANGED <<rx_used, wait_len, overflow_checks, tx_faulty, traffic, rx_ring, teardown, rx_stale>>

\* shutdown() that also forgets the connection, as force_close does.
ShutdownClosesConnection(ok) ==
    /\ Quiet /\ pc = "ready"
    /\ IF connection_info = <<>>
       THEN /\ last' = Simple("shutdown", NoArg, "NotConnected", <<>>)
            /\ UNCHANGED connection_info
       ELSE /\ last' = Simple("shutdown", NoArg, "Ok",
                              <<Packet(WithOp(connection_info[1], "Shutdown"), <<>>)>>)
            /\ connection_info' = <<>>
    /\ UNCHANGED <<rx_used, pc, wait_len, credit_requests, overflow_checks,
                   tx_faulty, traffic, rx_ring, teardown, rx_stale>>

\* shutdown().
Shutdown(ok) ==
    /\ Quiet /\ pc = "ready"
    /\ IF connection_info = <<>>
       THEN last' = Simple("shutdown", NoArg, "NotConnected", <<>>)
       ELSE IF ok
       THEN last' = Simple("shutdown", NoArg, "Ok",
                           <<Packet(WithOp(connection_info[1], "Shutdown"), <<>>)>>)
       ELSE last' = Simple("shutdown", NoArg, "QueueError", <<>>)
    /\ UNCHANGED <<connection_info, rx_used, pc, wait_len, credit_requests,
                   overflow_checks, tx_faulty, traffic, rx_ring, teardown, rx_stale>>

\* force_close() without line 339: the Rst is sent, connection_info stays.
ForceCloseKeepsConnection(ok) ==
    /\ Quiet /\ pc = "ready"
    /\ IF connection_info = <<>>
       THEN last' = Simple("force_close", NoArg, "NotConnected", <<>>)
       ELSE last' = Simple("force_close", NoArg, "Ok",
                           <<Packet(WithOp(connection_info[1], "Rst"), <<>>)>>)
    /\ UNCHANGED <<connection_info, rx_used, pc, wait_len, credit_requests,
                   overflow_checks, tx_faulty, traffic, rx_ring, teardown, rx_stale>>

\* force_close().
ForceClose(ok) ==
    /\ Quiet /\ pc = "ready"
    /\ IF connection_info = <<>>
       THEN /\ last' = Simple("force_close", NoArg, "NotConnected", <<>>)
            /\ UNCHANGED <<connection_info, rx_stale>>
       ELSE IF ok
       THEN /\ connection_info' = <<>>
            /\ rx_stale' = 0
            /\ last' = Simple("force_close", NoArg, "Ok",
                              <<Packet(WithOp(connection_info[1], "Rst"), <<>>)>>)
       ELSE /\ last' = Simple("force_close", NoArg, "QueueError", <<>>)
            /\ UNCHANGED <<connection_info, rx_stale>>
    /\ UNCHANGED <<rx_used, pc, wait_len, credit_requests, overflow_checks,
                   tx_faulty, traffic, rx_ring, teardown>>

\* The filled RX buffers, oldest first, with the queue they are used in.
RxState == [filled |-> rx_used, queue |-> rx_ring]

\* poll_recv without the connection_info()? of line 283.
poll_recv_unchecked(n, ok) ==
    LET ci == IF connection_info # <<>> THEN connection_info[1]
              ELSE DefaultConnectionInfo
        header == [WithOp(ci, "CreditUpdate") EXCEPT !.buf_alloc = n % U32_RANGE]
        r == poll_rx_queue(connection_info, RxState, EmptyBuffer(n), <<>>)
    IN  [res |-> r.res, conn |-> r.conn, rx |-> r.rx, body |-> r.body,
         popped |-> r.popped, err |-> r.err, event |-> r.event,
         emitted |-> <<Packet(header, <<>>)>>]

\* poll_recv that pops first and announces its credit afterwards.
poll_recv_announcing_last(n, ok) ==
    LET r == poll_rx_queue(connection_info, RxState, EmptyBuffer(n), <<>>)
        ci == IF r.conn # <<>> THEN r.conn[1] ELSE DefaultConnectionInfo
        header == [WithOp(ci, "CreditUpdate") EXCEPT !.buf_alloc = n % U32_RANGE]
    IN  IF connection_info = <<>>
        THEN [res |-> "Err", conn |-> connection_info, rx |-> RxState,
              body |-> EmptyBuffer(n), popped |-> <<>>, err |-> "NotConnected",
              event |-> NoEvent, emitted |-> <<>>]
        ELSE [res |-> r.res, conn |-> r.conn, rx |-> r.rx, body |-> r.body,
              popped |-> r.popped, err |-> r.err, event |-> r.event,
              emitted |-> <<Packet(header, <<>>)>>]

\* poll_recv(buffer) on a buffer of `n` bytes: the CreditUpdate, then poll_rx_queue.
poll_recv(n, ok) ==
    LET Ret(res, err, emitted) ==
            [res |-> res, conn |-> connection_info, rx |-> RxState,
             body |-> EmptyBuffer(n), popped |-> <<>>, err |-> err,
             event |-> NoEvent, emitted |-> emitted]
    IN  IF connection_info = <<>>
        THEN Ret("Err", "NotConnected", <<>>)
        ELSE
        LET header == [WithOp(connection_info[1], "CreditUpdate")
                           EXCEPT !.buf_alloc = n % U32_RANGE]
            emitted == <<Packet(header, <<>>)>>
            r == poll_rx_queue(connection_info, RxState, EmptyBuffer(n), <<>>)
        IN  IF ~ok
            THEN Ret("Err", "QueueError", <<>>)
            ELSE [res |-> r.res, conn |-> r.conn, rx |-> r.rx, body |-> r.body,
                  popped |-> r.popped, err |-> r.err, event |-> r.event,
                  emitted |-> emitted]

\* The results that are no return: the call aborted the driver.
Panics == {"PanicPeerFree", "PanicTxCnt", "PanicFwdCnt", "PanicUnwrap", "PanicToken"}

\* What poll_recv returned, as one word.
PollWord(r) == IF r.res \in {"Panic", "Err"} THEN r.err ELSE r.res

\* wait_for_connect's match on the event wait_for_recv returned.
connect_result(event_type) ==
    CASE event_type = "Connected" -> "Ok"
      [] event_type = "Disconnected" -> "ConnectionFailed"
      [] OTHER -> "InvalidOperation"

\* A wait_for_recv that polls once and hands on whatever poll_recv returned.
CallResultOfOnePoll(op, r) ==
    CASE r.res \in {"Panic", "Err"} -> r.err
      [] r.res = "None" -> "None"
      [] OTHER -> IF op = "wait_for_connect"
                  THEN connect_result(r.event[1].event_type)
                  ELSE "Event"

\* What the call `op` returns once its poll_recv returned `r`; "Pending" when
\* wait_for_recv's loop goes round again.
CallResult(op, r) ==
    CASE r.res \in {"Panic", "Err"} -> r.err
      [] r.res = "None" -> IF op = "poll_recv" THEN "None" ELSE "Pending"
      [] OTHER -> IF op = "wait_for_connect"
                  THEN connect_result(r.event[1].event_type)
                  ELSE "Event"

\* TRUE when the call dispatched a CreditUpdate of the connection.
DispatchedCreditUpdate(popped) ==
    \E i \in 1..Len(popped) :
        /\ popped[i].outcome = "continue"
        /\ OpOf(popped[i].pkt.hdr.op) = "CreditUpdate"

\* One poll_recv of the call `op`, and the call's return or its next round.
PollStep(op, n, ok) ==
    \E r \in {poll_recv(n, ok)} : \E result \in {CallResult(op, r)} :
        /\ connection_info' = r.conn
        /\ rx_used' = r.rx.filled
        /\ rx_ring' = r.rx.queue
        /\ last' = Last(op, LenArg(n), result, PollWord(r), r.emitted, r.event,
                        r.body, connection_info, r.popped)
        /\ credit_requests' =
               IF DispatchedCreditUpdate(r.popped) THEN 0 ELSE credit_requests
        /\ pc' = CASE result \in Panics -> "panicked"
                   [] result = "Pending" -> op
                   [] OTHER -> "ready"
        /\ wait_len' = IF result = "Pending" THEN n ELSE 0
        /\ rx_stale' = IF r.conn = <<>> \/ rx_stale <= Len(r.popped) THEN 0
                       ELSE rx_stale - Len(r.popped)
        /\ UNCHANGED <<overflow_checks, tx_faulty, traffic, teardown>>

\* poll_recv(buffer).
PollRecv(n, ok) == Quiet /\ pc = "ready" /\ PollStep("poll_recv", n, ok)

\* wait_for_recv(buffer), up to the return of its first poll_recv.
WaitForRecv(n, ok) == Quiet /\ pc = "ready" /\ PollStep("wait_for_recv", n, ok)

\* wait_for_connect(), which is wait_for_recv(&mut []).
WaitForConnect(ok) == Quiet /\ pc = "ready" /\ PollStep("wait_for_connect", 0, ok)

\* The next round of the loop of wait_for_recv.
WaitSpin(ok) ==
    /\ Quiet /\ pc \in {"wait_for_recv", "wait_for_connect"}
    /\ PollStep(pc, wait_len, ok)

\* The caller takes the result of the call that returned.
Return ==
    /\ ~Quiet /\ pc # "panicked"
    /\ last' = NoLast
    /\ UNCHANGED <<connection_info, rx_used, pc, wait_len, credit_requests,
                   overflow_checks, tx_faulty, traffic, rx_ring, teardown, rx_stale>>

----------------------------------------------------------------------------
(* Teardown. *)

\* drop() with the buffers freed first and the queues unset afterwards.
drop_effect_buffers_first(step) ==
    IF step < QUEUE_SIZE
    THEN [kind |-> "free", index |-> step]
    ELSE [kind |-> "queue_unset", index |-> step - QUEUE_SIZE]

\* What drop() does at its `step`-th statement, from 0: queue_unset of the
\* RX, TX and event queue, then Box::from_raw of rx_queue_buffers in order.
drop_effect(step) ==
    IF step < EVENT_QUEUE_IDX + 1
    THEN [kind |-> "queue_unset", index |-> step]
    ELSE [kind |-> "free", index |-> step - (EVENT_QUEUE_IDX + 1)]

\* The number of statements drop() executes.
DropSteps == EVENT_QUEUE_IDX + 1 + QUEUE_SIZE

\* One statement of drop(), which starts between two calls.
Drop ==
    /\ \/ pc = "ready" /\ Quiet
       \/ pc = "drop"
    /\ LET e == drop_effect(teardown.step)
       IN  teardown' =
               [step |-> teardown.step + 1,
                queues |-> IF e.kind = "queue_unset"
                           THEN teardown.queues \ {e.index}
                           ELSE teardown.queues,
                freed |-> IF e.kind = "free"
                          THEN [teardown.freed EXCEPT ![e.index] = @ + 1]
                          ELSE teardown.freed]
    /\ pc' = IF teardown.step + 1 = DropSteps THEN "dropped" ELSE "drop"
    /\ UNCHANGED <<connection_info, rx_used, wait_len, last, credit_requests,
                   overflow_checks, tx_faulty, traffic, rx_ring, rx_stale>>

----------------------------------------------------------------------------
(* The device. *)

\* The body a well-formed packet of declared length `n` carries.
BodyOf(n) == [i \in 1..Min(n, MaxLen) |-> i]

RxHeader(src, dst_cid, dst_port, op, len, buf_alloc, fwd_cnt) ==
    [src_cid |-> src.cid, dst_cid |-> dst_cid, src_port |-> src.port,
     dst_port |-> dst_port, len |-> len, op |-> op,
     buf_alloc |-> buf_alloc, fwd_cnt |-> fwd_cnt]

\* A packet from the host to the guest's port.
FromHost(op, len, buf_alloc, fwd_cnt) ==
    Packet(RxHeader(HostAddr, GuestCid, GuestPort, OpCode(op), len, buf_alloc, fwd_cnt),
           BodyOf(len))

\* The packet with the first operation code past the assigned ones.
Unrecognized(pkt) == [pkt EXCEPT !.hdr.op = OpCode("CreditRequest") + 1]

Traffics == {"lifecycle", "data", "acked", "credit", "overdrawn", "stray",
             "stray_data", "malformed", "unrecognized"}
PoolTraffics == {"slots"}
WaitTraffics == {"awaited"}
DropTraffics == {"teardown"}
CreditTraffics == {"honest"}

\* The packets the device may deliver, by family.
RxPackets(t) ==
    CASE t = "lifecycle" ->
           { FromHost(op, 0, 2, 0) :
               op \in {"Request", "Response", "Rst", "Shutdown", "Rw", "CreditRequest"} }
      [] t = "data" ->
           { FromHost("Response", 0, 2, 0) }
           \cup { FromHost("Rw", len, 2, 0) : len \in 1..MaxLen }
      [] t = "acked" ->
           { FromHost("Response", 0, 2, 0) }
           \cup { FromHost("Rw", len, 2, 2) : len \in 1..MaxLen }
      [] t = "credit" ->
           { FromHost(op, 0, c[1], c[2]) :
               op \in {"Response", "CreditUpdate"},
               c \in {<<1, 0>>, <<U32_RANGE - 1, U32_RANGE - 1>>} }
      [] t = "overdrawn" ->
           { FromHost(op, 0, c[1], c[2]) :
               op \in {"Response", "CreditUpdate"}, c \in {<<1, 0>>, <<0, 1>>} }
      [] t = "stray" ->
           { Packet(RxHeader(a[1], a[2], a[3], OpCode(op), 0, 1, 1), <<>>) :
               a \in {<<OtherAddr, GuestCid, GuestPort>>,
                      <<HostAddr, GuestCid + 1, GuestPort>>,
                      <<HostAddr, GuestCid, OtherPort>>},
               op \in {"Rst"} }
           \cup { FromHost("Response", 0, 2, 0) }
      [] t = "stray_data" ->
           { Packet(RxHeader(OtherAddr, GuestCid, GuestPort, OpCode("Rw"), len, 1, 1),
                    BodyOf(len)) : len \in {1, MaxLen + 1} }
           \cup { FromHost("Response", 0, 2, 0) }
      [] t = "unrecognized" ->
           { FromHost("Response", 0, 2, 0), FromHost("Invalid", 0, 2, 0),
             Unrecognized(FromHost("Rw", 1, 2, 0)) }
      [] t = "awaited" ->
           { FromHost("Response", 0, 2, 0), FromHost("Rw", 1, 2, 0),
             FromHost("CreditUpdate", 0, 2, 0), FromHost("Invalid", 0, 2, 0) }
      [] t = "superseded" ->
           { FromHost("Response", 0, 2, 0), FromHost("Rst", 0, 2, 0),
             FromHost("Rw", 1, 2, 0) }
      [] t = "slots" ->
           { FromHost("Rw", 1, 2, 0), FromHost("Rw", MaxLen + 1, 2, 0) }
      [] t = "teardown" ->
           { FromHost("Response", 0, 2, 0), FromHost("Rw", 1, 2, 0) }
      [] t = "honest" ->
           { FromHost(op, 0, b, f) :
               op \in {"Response", "CreditUpdate"}, b \in {0, MaxLen}, f \in {0, 1} }
      [] OTHER ->
           { FromHost(op, 1, 2, 0) : op \in {"Response", "CreditUpdate", "Rst"} }
           \cup { FromHost("Invalid", 0, 2, 0), FromHost("Rw", MaxLen + 1, 2, 0),
                  FromHost("CreditUpdate", 0, 2, 0) }

\* The least of a set of slots.
Lowest(S) == CHOOSE t \in S : \A u \in S : t <= u

\* The slots the device may fill next: any available one in the "slots"
\* family, the lowest available one in the others.
DeviceSlots(t, q) ==
    IF t = "slots" \/ Available(q) = {} THEN Available(q) ELSE {Lowest(Available(q))}

\* The credit a well-behaved peer may advertise to a driver whose connection
\* is `ci`: a fwd_cnt of at most the bytes sent, and a buf_alloc of at least
\* the bytes sent and not yet forwarded.
WellBehaved(header, ci) ==
    /\ header.fwd_cnt <= ci.tx_cnt
    /\ header.buf_alloc >= ci.tx_cnt - header.fwd_cnt

\* The device writes a packet into an available RX buffer and marks it used.
DeviceDeliver(pkt) ==
    /\ Quiet
    /\ Len(rx_used) < Min(MaxRx, QUEUE_SIZE)
    /\ RX_QUEUE_IDX \in teardown.queues
    /\ traffic \in StaleTraffics => connection_info # <<>>
    /\ traffic \in CreditTraffics =>
           (connection_info # <<>> /\ WellBehaved(pkt.hdr, connection_info[1]))
    /\ \E t \in DeviceSlots(traffic, rx_ring) :
           rx_ring' = [rx_ring EXCEPT !.used = Append(rx_ring.used, t)]
    /\ rx_used' = Append(rx_used, pkt)
    /\ UNCHANGED <<connection_info, pc, wait_len, last, credit_requests,
                   overflow_checks, tx_faulty, traffic, teardown, rx_stale>>

----------------------------------------------------------------------------
(* The specification. *)

\* The queues new() creates on the transport.
QueueIndices == {RX_QUEUE_IDX, TX_QUEUE_IDX, EVENT_QUEUE_IDX}

\* Before drop(): every queue set, no buffer freed.
NoTeardown ==
    [step |-> 0, queues |-> QueueIndices, freed |-> [b \in Slots |-> 0]]

\* The state new() returns, for a TX queue that is faulty or not and the
\* traffic families of the run; new() aborts if a token is not its index.
InitFor(faulty, families) ==
    /\ connection_info = <<>>
    /\ rx_used = <<>>
    /\ pc = IF add_rx_buffers(NewQueue, 0).fatal THEN "panicked" ELSE "ready"
    /\ wait_len = 0
    /\ last = NoLast
    /\ credit_requests = 0
    /\ overflow_checks \in BOOLEAN
    /\ tx_faulty = faulty
    /\ traffic \in families
    /\ rx_ring = add_rx_buffers(NewQueue, 0).queue
    /\ teardown = NoTeardown
    /\ rx_stale = 0

InitWith(faulty) == InitFor(faulty, Traffics)

Init == InitWith(FALSE)

BufLens == 0..MaxLen

Next ==
    \/ \E d \in PeerAddrs, p \in LocalPorts, ok \in TxOutcomes : Connect(d, p, ok)
    \/ \E ok \in TxOutcomes : RequestCredit(ok)
    \/ \E n \in BufLens, ok \in TxOutcomes : Send(n, ok)
    \/ \E ok \in TxOutcomes : Shutdown(ok)
    \/ \E ok \in TxOutcomes : ForceClose(ok)
    \/ \E n \in BufLens, ok \in TxOutcomes : PollRecv(n, ok)
    \/ \E n \in BufLens, ok \in TxOutcomes : WaitForRecv(n, ok)
    \/ \E ok \in TxOutcomes : WaitForConnect(ok)
    \/ \E ok \in TxOutcomes : WaitSpin(ok)
    \/ Return
    \/ \E pkt \in RxPackets(traffic) : DeviceDeliver(pkt)

Spec == Init /\ [][Next]_vars

\* The driver with a device that completes the RX buffers in any order.
InitPool == InitFor(FALSE, PoolTraffics)

SpecPool == InitPool /\ [][Next]_vars

\* The driver with a caller whose wait_for_recv keeps running: the loop of
\* lines 308-314 has no exit but its returns, and spin_loop() does not block.
InitWait == InitFor(FALSE, WaitTraffics)

WaitRound ==
    \/ \E ok \in TxOutcomes : WaitSpin(ok)
    \/ pc \in {"wait_for_recv", "wait_for_connect"} /\ Return

SpecWait == InitWait /\ [][Next]_vars /\ WF_vars(WaitRound)

\* The driver with a peer whose packets may arrive after their connection
\* was closed.
InitStale == InitFor(FALSE, StaleTraffics)

SpecStale == InitStale /\ [][Next]_vars

\* The driver with a peer that advertises only credit it can honour.
InitCredit == InitFor(FALSE, CreditTraffics)

SpecCredit == InitCredit /\ [][Next]_vars

\* The driver with a TX queue whose add_notify_wait_pop may fail.
TxErrTraffics == {"data"}

InitTxErr == InitFor(TRUE, TxErrTraffics)

SpecTxErr == InitTxErr /\ [][Next]_vars

\* The driver with its teardown.
InitDrop == InitFor(FALSE, DropTraffics)

NextDrop == Next \/ Drop

SpecDrop == InitDrop /\ [][NextDrop]_vars

----------------------------------------------------------------------------
(* Properties. *)

\* C1: connect with a connection fails with ConnectionExists, emits nothing
\* and leaves connection_info as it was; connect without one returns Ok, emits
\* exactly one body-less Request (len = 0, fwd_cnt = 0, src = the guest's cid
\* and src_port, dst = destination), leaves a fresh ConnectionInfo with every
\* counter 0 and no pending credit request, and pops no RX slot.
C1_Connect ==
    last.op = "connect" =>
        IF last.pre # <<>>
        THEN /\ last.result = "ConnectionExists"
             /\ last.emitted = <<>>
             /\ connection_info = last.pre
        ELSE /\ last.result = "Ok"
             /\ Len(last.emitted) = 1
             /\ last.emitted[1].body = <<>>
             /\ last.emitted[1].hdr =
                    [src_cid |-> GuestCid, src_port |-> last.arg.src_port,
                     dst_cid |-> last.arg.destination.cid,
                     dst_port |-> last.arg.destination.port,
                     len |-> 0, op |-> 1, buf_alloc |-> 0, fwd_cnt |-> 0]
             /\ connection_info =
                    <<[dst |-> last.arg.destination, src_port |-> last.arg.src_port,
                       peer_buf_alloc |-> 0, peer_fwd_cnt |-> 0, tx_cnt |-> 0,
                       fwd_cnt |-> 0, has_pending_credit_request |-> FALSE]>>
             /\ last.popped = <<>>
             /\ pc = "ready"

\* A connect to the other peer that succeeded while a packet was unread in
\* the RX queue.
C1_Witness ==
    /\ last.op = "connect" /\ last.result = "Ok"
    /\ last.arg.destination = OtherAddr
    /\ rx_used # <<>>

\* C2: force_close on a connection returns Ok, emits exactly one body-less
\* Rst of that connection, leaves no connection and pops no RX slot; whenever
\* there is no connection the driver is ready for calls, and connect is then
\* possible and succeeds.
C2_NoTerminalState ==
    /\ (last.op = "force_close" /\ last.pre # <<>>) =>
           /\ last.result = "Ok"
           /\ Len(last.emitted) = 1
           /\ last.emitted[1].body = <<>>
           /\ last.emitted[1].hdr.op = 3
           /\ last.emitted[1].hdr.len = 0
           /\ HdrSource(last.emitted[1].hdr) =
                  [cid |-> GuestCid, port |-> last.pre[1].src_port]
           /\ last.emitted[1].hdr.dst_cid = last.pre[1].dst.cid
           /\ last.emitted[1].hdr.dst_port = last.pre[1].dst.port
           /\ connection_info = <<>>
           /\ last.popped = <<>>
    /\ connection_info = <<>> => pc = "ready"
    /\ (connection_info = <<>> /\ Quiet) =>
           \A d \in PeerAddrs, p \in LocalPorts : ENABLED Connect(d, p, TRUE)
    /\ (last.op = "connect" /\ last.pre = <<>>) =>
           (last.result = "Ok" /\ connection_info # <<>>)

\* A force_close of a connection that had sent data, with a packet of the
\* peer unread: the driver is without a connection at once.
C2_Witness ==
    /\ last.op = "force_close" /\ last.result = "Ok"
    /\ last.pre[1].tx_cnt > 0
    /\ rx_used # <<>>
    /\ connection_info = <<>>

\* C3: without a connection, send, request_credit, shutdown, force_close and
\* poll_recv fail with NotConnected, emit nothing, pop no RX slot and leave
\* the driver without a connection.
C3_IdleNotConnected ==
    (/\ last.op \in {"send", "request_credit", "shutdown", "force_close", "poll_recv"}
     /\ last.pre = <<>>) =>
        /\ last.result = "NotConnected"
        /\ last.emitted = <<>>
        /\ last.popped = <<>>
        /\ connection_info = <<>>
        /\ pc = "ready"

\* poll_recv without a connection while a matching Rst sits in the RX queue.
C3_Witness ==
    /\ last.op = "poll_recv" /\ last.pre = <<>>
    /\ rx_used # <<>>
    /\ OpOf(rx_used[1].hdr.op) = "Rst"

\* peer_buf_alloc - (tx_cnt - peer_fwd_cnt) with both subtractions wrapping.
WrappedPeerFree(ci) ==
    (ci.peer_buf_alloc - ((ci.tx_cnt - ci.peer_fwd_cnt) % U32_RANGE)) % U32_RANGE

DataPackets(emitted) == { i \in 1..Len(emitted) : emitted[i].hdr.op = 5 }

\* C4: a send of n bytes on a connection that returns emits a data packet
\* exactly when n <= peer_free() as of the call: then it is the only packet,
\* its len is n, its body the n bytes, and tx_cnt grows by n (on u32) with
\* nothing else changed; otherwise send fails with
\* InsufficientBufferSpaceInPeer, emits no data packet, and tx_cnt, fwd_cnt,
\* peer_buf_alloc and peer_fwd_cnt are as before.
C4_SendCredit ==
    (last.op = "send" /\ last.pre # <<>> /\ last.result \notin Panics) =>
        LET ci == last.pre[1]
            now == connection_info[1]
            n == last.arg.len
        IN  /\ connection_info # <<>>
            /\ IF n <= WrappedPeerFree(ci)
               THEN /\ last.result = "Ok"
                    /\ Len(last.emitted) = 1
                    /\ last.emitted[1].hdr.op = 5
                    /\ last.emitted[1].hdr.len = n
                    /\ last.emitted[1].body = Payload(n)
                    /\ now = [ci EXCEPT !.tx_cnt = (ci.tx_cnt + n) % U32_RANGE]
               ELSE /\ last.result = "InsufficientBufferSpaceInPeer"
                    /\ DataPackets(last.emitted) = {}
                    /\ now.tx_cnt = ci.tx_cnt
                    /\ now.fwd_cnt = ci.fwd_cnt
                    /\ now.peer_buf_alloc = ci.peer_buf_alloc
                    /\ now.peer_fwd_cnt = ci.peer_fwd_cnt

\* A send that used up the peer's whole buffer after earlier data was sent.
C4_Witness ==
    /\ last.op = "send" /\ last.result = "Ok"
    /\ last.arg.len > 0
    /\ last.pre[1].tx_cnt > 0
    /\ WrappedPeerFree(connection_info[1]) = 0

\* C5: on a connection at most one CreditRequest of send is outstanding: a
\* send failing with InsufficientBufferSpaceInPeer emits exactly one
\* CreditRequest and sets has_pending_credit_request when the flag was clear,
\* and emits nothing when it was set; the flag is set exactly while a
\* CreditRequest of send has been emitted with no CreditUpdate dispatched
\* since, so between two CreditRequests of send a CreditUpdate is dispatched.
C5_NoDuplicateCreditRequest ==
    /\ credit_requests <= 1
    /\ connection_info # <<>> =>
           (connection_info[1].has_pending_credit_request <=> credit_requests = 1)
    /\ (last.op = "send" /\ last.result = "InsufficientBufferSpaceInPeer") =>
           /\ connection_info[1].has_pending_credit_request
           /\ IF last.pre[1].has_pending_credit_request
              THEN last.emitted = <<>>
              ELSE /\ Len(last.emitted) = 1
                   /\ last.emitted[1].hdr.op = 7
                   /\ last.emitted[1].hdr.len = 0
                   /\ last.emitted[1].body = <<>>

\* A second failing send before any CreditUpdate: nothing is emitted.
C5_Witness ==
    /\ last.op = "send" /\ last.result = "InsufficientBufferSpaceInPeer"
    /\ last.pre[1].has_pending_credit_request
    /\ last.emitted = <<>>

\* The header `h` is addressed from the peer of connection `ci` to its local end.
Addressed(h, ci) ==
    /\ h.src_cid = ci.dst.cid /\ h.src_port = ci.dst.port
    /\ h.dst_cid = GuestCid /\ h.dst_port = ci.src_port

PollOps == {"poll_recv", "wait_for_recv", "wait_for_connect"}

\* C6 (as claimed): in every reachable ConnectionInfo peer_free() is
\* (peer_buf_alloc - ((tx_cnt - peer_fwd_cnt) mod 2^32)) mod 2^32, and no call
\* aborts computing it.
C6_PeerFreeWraps ==
    /\ connection_info # <<>> =>
           peer_free(connection_info[1]).val = WrappedPeerFree(connection_info[1])
    /\ last.result # "PanicPeerFree"

\* C7 (as claimed): a popped packet not addressed to the connection, whatever
\* its operation and declared length, is skipped: it makes no error, and a call
\* that popped only such packets returns none with connection_info unchanged.
C7_StrayDiscarded ==
    (last.op \in PollOps /\ last.pre # <<>>) =>
        /\ \A i \in 1..Len(last.popped) :
               ~Addressed(last.popped[i].pkt.hdr, last.pre[1]) =>
                   last.popped[i].outcome = "skipped"
        /\ (\A i \in 1..Len(last.popped) :
               ~Addressed(last.popped[i].pkt.hdr, last.pre[1])) =>
               /\ connection_info = last.pre
               /\ last.poll = "None"
               /\ last.event = NoEvent

\* C8: a poll that pops a body-less Rst or Shutdown addressed to the
\* connection ends with it, leaves no connection and returns Disconnected with
\* reason Reset for Rst and Shutdown for Shutdown, source the former peer and
\* destination the guest's cid and the connection's port; no call returns a
\* Disconnected event otherwise.
C8_Disconnected ==
    /\ (last.op \in PollOps /\ last.pre # <<>>) =>
           \A i \in 1..Len(last.popped) :
               LET h == last.popped[i].pkt.hdr
               IN  (Addressed(h, last.pre[1]) /\ h.op \in {3, 4} /\ h.len = 0) =>
                       /\ i = Len(last.popped)
                       /\ connection_info = <<>>
                       /\ last.poll = "Event"
                       /\ last.event =
                              <<[source |-> last.pre[1].dst,
                                 destination |-> [cid |-> GuestCid,
                                                  port |-> last.pre[1].src_port],
                                 event_type |-> "Disconnected",
                                 reason |-> IF h.op = 3 THEN "Reset" ELSE "Shutdown",
                                 length |-> 0]>>
    /\ (last.event # NoEvent /\ last.event[1].event_type = "Disconnected") =>
           /\ last.op \in PollOps
           /\ last.popped # <<>>
           /\ LET h == last.popped[Len(last.popped)].pkt.hdr
              IN  Addressed(h, last.pre[1]) /\ h.op \in {3, 4} /\ h.len = 0

\* A Shutdown of the peer dispatched behind a packet of another address.
C8_Witness ==
    /\ last.op = "poll_recv"
    /\ Len(last.popped) = 2
    /\ last.popped[2].pkt.hdr.op = 4
    /\ last.event # NoEvent
    /\ last.event[1].reason = "Shutdown"
    /\ connection_info = <<>>

\* C9 (as claimed): wait_for_connect returns Ok exactly when the packet that
\* ends it is a Response of the peer; ConnectionFailed, with no connection
\* left, when it is a Rst or Shutdown; InvalidOperation when it is a data packet.
C9_WaitForConnect ==
    (/\ last.op = "wait_for_connect" /\ last.result # "Pending"
     /\ last.pre # <<>> /\ last.popped # <<>>) =>
        LET h == last.popped[Len(last.popped)].pkt.hdr
        IN  /\ last.result = "Ok" <=>
                   (Addressed(h, last.pre[1]) /\ h.op = 2 /\ h.len = 0)
            /\ (Addressed(h, last.pre[1]) /\ h.op \in {3, 4} /\ h.len = 0) =>
                   (last.result = "ConnectionFailed" /\ connection_info = <<>>)
            /\ (Addressed(h, last.pre[1]) /\ h.op = 5) =>
                   last.result = "InvalidOperation"

\* C10: a poll that pops a data packet addressed to the connection, with a
\* declared length L that fits the RX slot and the caller's buffer, ends with
\* it and, unless it aborts, returns Received{L}: fwd_cnt has grown by L (on
\* u32), the buffer starts with the L body bytes, peer_buf_alloc and
\* peer_fwd_cnt are the header's, and tx_cnt is as before.
C10_Received ==
    (last.op \in PollOps /\ last.pre # <<>> /\ last.result \notin Panics) =>
        \A i \in 1..Len(last.popped) :
            LET h == last.popped[i].pkt.hdr
                L == h.len
            IN  (/\ Addressed(h, last.pre[1]) /\ h.op = 5
                 /\ L <= last.arg.len /\ HdrSize + L <= RX_BUFFER_SIZE) =>
                    /\ i = Len(last.popped)
                    /\ connection_info # <<>>
                    /\ connection_info[1].fwd_cnt =
                           (last.pre[1].fwd_cnt + L) % U32_RANGE
                    /\ connection_info[1].tx_cnt = last.pre[1].tx_cnt
                    /\ connection_info[1].peer_buf_alloc = h.buf_alloc
                    /\ connection_info[1].peer_fwd_cnt = h.fwd_cnt
                    /\ SubSeq(last.buffer, 1, L) = last.popped[i].pkt.body
                    /\ last.poll = "Event"
                    /\ last.event =
                           <<[source |-> last.pre[1].dst,
                              destination |-> [cid |-> GuestCid,
                                               port |-> last.pre[1].src_port],
                              event_type |-> "Received", reason |-> "",
                              length |-> L]>>

\* The scenario of tests::send_recv, scaled: 2 bytes sent, then a 1-byte data
\* packet acknowledging them is received into a longer buffer.
C10_Witness ==
    /\ last.op = "wait_for_recv" /\ last.result = "Event"
    /\ last.event[1].event_type = "Received" /\ last.event[1].length = 1
    /\ last.arg.len = 2
    /\ last.buffer = <<1, 0>>
    /\ connection_info[1].tx_cnt = 2
    /\ connection_info[1].peer_fwd_cnt = 2
    /\ connection_info[1].fwd_cnt = 1

\* C11: a body-less CreditUpdate, CreditRequest or Request addressed to the
\* connection is bookkeeping only: the poll that pops it goes on to the next
\* slot, so it is the last slot popped only when the queue was drained and the
\* call returned none; and the only packet the call emits is its opening
\* CreditUpdate.
C11_Bookkeeping ==
    (last.op \in PollOps /\ last.pre # <<>>) =>
        \A i \in 1..Len(last.popped) :
            LET h == last.popped[i].pkt.hdr
            IN  (Addressed(h, last.pre[1]) /\ h.op \in {1, 6, 7} /\ h.len = 0) =>
                    /\ last.popped[i].outcome = "continue"
                    /\ Len(last.emitted) = 1
                    /\ last.emitted[1].hdr.op = 6
                    /\ last.emitted[1].hdr.buf_alloc = last.arg.len % U32_RANGE
                    /\ i = Len(last.popped) =>
                           /\ rx_used = <<>>
                           /\ last.poll = "None"
                           /\ last.event = NoEvent
                           /\ connection_info # <<>>

\* One poll_recv that passed a CreditRequest and reported the Response
\* filled behind it.
C11_Witness ==
    /\ last.op = "poll_recv" /\ Len(last.popped) = 2
    /\ last.popped[1].pkt.hdr.op = 7
    /\ last.popped[1].outcome = "continue"
    /\ last.popped[2].pkt.hdr.op = 2
    /\ last.event # NoEvent
    /\ last.event[1].event_type = "Connected"

\* The codes of the operations whose packets carry no body.
BodylessOps == {1, 2, 3, 4, 6, 7}

\* C12 (as claimed): a packet addressed to the connection with a body-less
\* operation and a declared length other than 0 ends the poll that pops it
\* with the error of the empty-body validation: no event, the connection
\* stays, fwd_cnt is as before, and has_pending_credit_request is not cleared
\* by it.
C12_NonEmptyBodyRejected ==
    (last.op \in PollOps /\ last.pre # <<>>) =>
        \A i \in 1..Len(last.popped) :
            LET h == last.popped[i].pkt.hdr
            IN  (Addressed(h, last.pre[1]) /\ h.op \in BodylessOps /\ h.len # 0) =>
                    /\ i = Len(last.popped)
                    /\ last.poll = "InvalidOperation"
                    /\ last.event = NoEvent
                    /\ connection_info # <<>>
                    /\ connection_info[1].fwd_cnt = last.pre[1].fwd_cnt
                    /\ (i = 1 => connection_info[1].has_pending_credit_request
                                    = last.pre[1].has_pending_credit_request)

\* C13: while the driver is neither being dropped nor dropped, between two
\* steps every one of the QUEUE_SIZE RX buffers is referenced by exactly one
\* descriptor of the RX queue and no descriptor is free; the buffers the
\* device filled are as many as the used tokens, which are distinct; and
\* every slot a call popped was read while no descriptor referenced it, and
\* is in the queue again when the call ends, whatever its decoding returned.
C13_BufferPool ==
    pc \notin {"drop", "dropped"} =>
        /\ rx_ring.free = <<>>
        /\ \A b \in Slots :
               Cardinality({t \in Slots : rx_ring.desc[t] = <<b>>}) = 1
        /\ Len(rx_used) = Len(rx_ring.used)
        /\ \A i, j \in 1..Len(rx_ring.used) :
               rx_ring.used[i] = rx_ring.used[j] => i = j
        /\ \A i \in 1..Len(last.popped) : last.popped[i].exclusive

\* A poll whose slot failed to decode (the body does not fit the caller's
\* buffer) while a later slot, completed out of order, is still filled.
C13_Witness ==
    /\ last.op \in PollOps /\ Len(last.popped) = 1
    /\ last.popped[1].outcome = "undecoded"
    /\ last.poll = "OutputBufferTooShort"
    /\ Len(rx_ring.used) = 1
    /\ rx_ring.used[1] = 0

\* C14: new() finds token i for buffer i, and while the driver is neither
\* being dropped nor dropped the descriptor of token i references buffer i,
\* whatever the order in which the device completed the buffers and however
\* many were popped and added back; so neither assert_eq! fails: no call
\* ends in the abort of line 484 and the driver stops only on another panic.
C14_SlotIndexStable ==
    /\ ~add_rx_buffers(NewQueue, 0).fatal
    /\ last.result # "PanicToken"
    /\ pc = "panicked" => last.result \in Panics \ {"PanicToken"}
    /\ pc \notin {"drop", "dropped"} =>
           \A i \in Slots : rx_ring.desc[i] = <<i>>

\* A call that popped one slot and returned its data while a slot the device
\* completed ahead of lower-numbered ones is still filled.
C14_Witness ==
    /\ last.op \in PollOps /\ Len(last.popped) = 1
    /\ last.result = "Event"
    /\ last.event[1].event_type = "Received"
    /\ Len(rx_ring.used) = 1
    /\ rx_ring.used[1] = QUEUE_SIZE - 1

\* C15: every poll_recv on a connection (the one of a poll_recv call and each
\* one wait_for_recv runs) emits exactly one packet, a body-less CreditUpdate
\* of the connection with buf_alloc = the length of the caller's buffer and
\* fwd_cnt = the connection's fwd_cnt before any slot is popped; and when no
\* RX buffer was filled it pops nothing, reports none (a poll_recv call
\* returns None at once, the driver is ready again) and leaves
\* connection_info as it was.
C15_CreditAnnounced ==
    (last.op \in PollOps /\ last.pre # <<>>) =>
        /\ Len(last.emitted) = 1
        /\ last.emitted[1].body = <<>>
        /\ last.emitted[1].hdr =
               [WithOp(last.pre[1], "CreditUpdate")
                    EXCEPT !.buf_alloc = last.arg.len % U32_RANGE]
        /\ last.emitted[1].hdr.fwd_cnt = last.pre[1].fwd_cnt
        /\ last.emitted[1].hdr.len = 0
        /\ last.popped = <<>> =>
               /\ last.poll = "None"
               /\ last.event = NoEvent
               /\ connection_info = last.pre
               /\ rx_used = <<>>
               /\ last.op = "poll_recv" => (last.result = "None" /\ pc = "ready")

\* A poll_recv that found no filled buffer on a connection that had already
\* received data.
C15_Witness ==
    /\ last.op = "poll_recv" /\ last.pre # <<>>
    /\ last.pre[1].fwd_cnt > 0
    /\ last.arg.len = MaxLen
    /\ last.popped = <<>>
    /\ last.result = "None"

\* C16: shutdown on a connection returns Ok, emits exactly one packet, a
\* body-less Shutdown of the connection, and leaves connection_info as it
\* was, so the connection is still there afterwards; and a connection goes
\* away in one step only by a force_close or by a poll that dispatched a Rst
\* or Shutdown addressed to it and returned Disconnected.
C16_ShutdownKeepsConnection ==
    /\ [](last.op = "shutdown" =>
             IF last.pre = <<>>
             THEN last.result = "NotConnected" /\ last.emitted = <<>>
                  /\ connection_info = <<>>
             ELSE /\ last.result = "Ok"
                  /\ Len(last.emitted) = 1
                  /\ last.emitted[1].hdr = WithOp(last.pre[1], "Shutdown")
                  /\ last.emitted[1].hdr.len = 0
                  /\ last.emitted[1].body = <<>>
                  /\ connection_info = last.pre)
    /\ [][(connection_info # <<>> /\ connection_info' = <<>>) =>
             \/ last'.op = "force_close"
             \/ /\ last'.op \in PollOps
                /\ last'.event # NoEvent
                /\ last'.event[1].event_type = "Disconnected"
                /\ LET h == last'.popped[Len(last'.popped)].pkt.hdr
                   IN  h.op \in {3, 4} /\ Addressed(h, connection_info[1])]_vars

\* shutdown returned Ok on a connection that has sent data and has a filled
\* RX buffer waiting.
C16_Witness ==
    /\ last.op = "shutdown" /\ last.result = "Ok"
    /\ connection_info # <<>>
    /\ connection_info[1].tx_cnt > 0
    /\ rx_used # <<>>

\* C17: in drop() no RX buffer is freed while the transport still has the
\* RX, TX or event queue set, no buffer is freed twice, nothing is unset or
\* freed before drop() starts, and when drop() is done all three queues are
\* unset and every one of the QUEUE_SIZE buffers has been freed exactly once.
C17_TeardownOrder ==
    /\ \A b \in Slots : teardown.freed[b] <= 1
    /\ (\E b \in Slots : teardown.freed[b] > 0) => teardown.queues = {}
    /\ pc \notin {"drop", "dropped"} => teardown = NoTeardown
    /\ pc = "dropped" =>
           /\ teardown.queues = {}
           /\ \A b \in Slots : teardown.freed[b] = 1

\* The driver was dropped on a connection with a filled RX buffer it had not
\* popped.
C17_Witness ==
    /\ pc = "dropped"
    /\ connection_info # <<>>
    /\ rx_used # <<>>

\* C18: a decoded packet addressed to the connection whose operation code is
\* none of the seven assigned ones (1..7) is never passed over: it is the
\* last slot its poll pops, and the call fails with InvalidOperation and
\* returns no event.
C18_InvalidOperation ==
    (last.op \in PollOps /\ last.pre # <<>>) =>
        \A i \in 1..Len(last.popped) :
            LET h == last.popped[i].pkt.hdr
            IN  (Addressed(h, last.pre[1]) /\ h.op \notin 1..7) =>
                    /\ last.popped[i].outcome \in {"error", "undecoded"}
                    /\ i = Len(last.popped)
                    /\ last.event = NoEvent
                    /\ last.popped[i].outcome = "error" =>
                           /\ last.poll = "InvalidOperation"
                           /\ last.result = "InvalidOperation"
                           /\ pc = "ready"

\* A wait_for_recv that popped a packet of the connection with code 8 and a
\* body that fits the caller's buffer, and failed on it.
C18_Witness ==
    /\ last.op = "wait_for_recv" /\ last.pre # <<>>
    /\ Len(last.popped) = 1
    /\ last.popped[1].pkt.hdr.op = 8
    /\ last.popped[1].pkt.hdr.len = 1
    /\ last.popped[1].outcome = "error"
    /\ last.result = "InvalidOperation"

\* The packets that make an event when they are addressed to the connection.
EventPackets ==
    { FromHost(op, 0, 2, 0) : op \in {"Response", "Rst", "Shutdown"} }
    \cup { FromHost("Rw", len, 2, 0) : len \in 1..MaxLen }

EventTypeOf(pkt) ==
    CASE pkt.hdr.op = 2 -> "Connected"
      [] pkt.hdr.op = 5 -> "Received"
      [] OTHER -> "Disconnected"

\* wait_for_recv is running on a connection and `pkt`, addressed to it and
\* with a body that fits the caller's buffer, is the i-th filled RX buffer.
Awaited(pkt, i) ==
    /\ pc = "wait_for_recv" /\ connection_info # <<>>
    /\ Len(rx_used) >= i /\ rx_used[i] = pkt
    /\ Addressed(pkt.hdr, connection_info[1])
    /\ pkt.hdr.len <= wait_len

\* A filled buffer poll_rx_queue pops and passes: its body fits the caller's
\* buffer, and it is not addressed to the connection or is a body-less
\* Request, CreditUpdate or CreditRequest.
Passed(pkt) ==
    /\ pkt.hdr.len <= wait_len /\ Len(pkt.body) = pkt.hdr.len
    /\ \/ ~Addressed(pkt.hdr, connection_info[1])
       \/ pkt.hdr.op \in {1, 6, 7} /\ pkt.hdr.len = 0

\* wait_for_recv returned the event of `pkt`.
ReturnedEventOf(pkt) ==
    /\ last.op = "wait_for_recv" /\ last.result = "Event"
    /\ last.popped # <<>>
    /\ last.popped[Len(last.popped)].pkt = pkt
    /\ last.event # NoEvent
    /\ last.event[1].event_type = EventTypeOf(pkt)

\* The index of the first filled RX buffer the next poll does not pass, 0
\* when it passes them all.
FirstKept ==
    IF \A j \in 1..Len(rx_used) : Passed(rx_used[j]) THEN 0
    ELSE Lowest({ j \in 1..Len(rx_used) : ~Passed(rx_used[j]) })

C20_StaleIgnored ==
    [][(last'.op \in PollOps /\ last' # last /\ connection_info # <<>>) =>
          /\ \A i \in 1..Min(rx_stale, Len(last'.popped)) :
                 last'.popped[i].outcome \in {"skipped", "undecoded"}
          /\ (last'.popped # <<>> /\ Len(last'.popped) <= rx_stale) =>
                 /\ connection_info' = connection_info
                 /\ last'.event = NoEvent]_vars

\* The bytes a call counted as received: the declared lengths of the Rw
\* packets it dispatched into an event.
RECURSIVE ReceivedBytes(_)
ReceivedBytes(popped) ==
    IF popped = <<>> THEN 0
    ELSE (IF Head(popped).outcome = "event" /\ Head(popped).pkt.hdr.op = 5
          THEN Head(popped).pkt.hdr.len ELSE 0) + ReceivedBytes(Tail(popped))

\* fwd_cnt across one step: 0 when a connection is created, then the old
\* value plus the bytes the step's poll counted as received, as a u32.
FwdCntStep ==
    /\ (connection_info = <<>> /\ connection_info' # <<>>) =>
           (connection_info'[1].fwd_cnt = 0)
    /\ (connection_info # <<>> /\ connection_info' # <<>>) =>
           (connection_info'[1].fwd_cnt =
               (connection_info[1].fwd_cnt
                + (IF last' # last /\ last'.op \in PollOps
                   THEN ReceivedBytes(last'.popped) ELSE 0)) % U32_RANGE)

\* C21: every packet a call emits has one of the operations Request, Rst,
\* Shutdown, Rw, CreditUpdate, CreditRequest, src = (the guest's cid, the
\* connection's local port), dst = the connection's destination, fwd_cnt =
\* the connection's fwd_cnt when the call began, len = the length of its
\* body (0 unless it is data), and buf_alloc = 0 unless it is the
\* CreditUpdate of a poll_recv; and fwd_cnt is 0 at connect and afterwards
\* grows, as a u32, by exactly the declared lengths of the data packets of
\* the connection that a poll dispatched.
C21_EmittedHeaders ==
    /\ [](\A i \in 1..Len(last.emitted) :
             LET h == last.emitted[i].hdr
                 ci == IF last.pre # <<>> THEN last.pre[1] ELSE connection_info[1]
             IN  /\ h.op \in {1, 3, 4, 5, 6, 7}
                 /\ h.src_cid = GuestCid /\ h.src_port = ci.src_port
                 /\ h.dst_cid = ci.dst.cid /\ h.dst_port = ci.dst.port
                 /\ h.fwd_cnt = ci.fwd_cnt
                 /\ h.len = Len(last.emitted[i].body) % U32_RANGE
                 /\ h.op # 5 => h.len = 0
                 /\ h.buf_alloc # 0 => (h.op = 6 /\ last.op \in PollOps))
    /\ [][FwdCntStep]_vars

\* A send that emitted a data packet after the connection had received data.
C21_Witness ==
    /\ last.op = "send" /\ last.result = "Ok"
    /\ Len(last.emitted) = 1
    /\ last.emitted[1].hdr.op = 5
    /\ last.emitted[1].hdr.len > 0
    /\ last.emitted[1].hdr.fwd_cnt > 0

\* The packets of the slots a call popped, oldest first.
PoppedPackets(popped) == [i \in 1..Len(popped) |-> popped[i].pkt]

\* A packet addressed to connection `ci` whose operation makes an event:
\* Response, Rst, Shutdown or Rw.
EventProducing(pkt, ci) == Addressed(pkt.hdr, ci) /\ pkt.hdr.op \in {2, 3, 4, 5}

\* C22 (as claimed): a poll_recv on a connection pops a prefix of the filled
\* RX buffers and leaves the rest filled in the same order; it returns at
\* most one event; every event-producing packet of the connection that it
\* pops is the last one it pops and the call returns that packet's event, so
\* that none is consumed without being reported; and an event it returns is
\* that of the last packet popped, every packet before it having made none.
C22_EventsInOrder ==
    [][(last' # last /\ last'.op = "poll_recv" /\ last'.pre # <<>>) =>
         LET P == last'.popped
         IN  /\ rx_used = PoppedPackets(P) \o rx_used'
             /\ Len(last'.event) <= 1
             /\ \A i \in 1..Len(P) :
                    EventProducing(P[i].pkt, last'.pre[1]) =>
                        /\ i = Len(P)
                        /\ last'.result = "Event"
                        /\ last'.event # NoEvent
                        /\ last'.event[1].event_type = EventTypeOf(P[i].pkt)
             /\ last'.event # NoEvent =>
                    /\ P # <<>>
                    /\ EventProducing(P[Len(P)].pkt, last'.pre[1])]_vars

\* C23 (as claimed): with a peer that advertises only credit it can honour,
\* every state with a connection has tx_cnt - peer_fwd_cnt <= peer_buf_alloc,
\* peer_free() computed without wrapping, and peer_free() = 0 exactly when
\* the bytes in flight equal the advertised buffer.
C23_NoOverdraw ==
    connection_info # <<>> =>
        LET ci == connection_info[1]
        IN  /\ ci.tx_cnt - ci.peer_fwd_cnt <= ci.peer_buf_alloc
            /\ ~peer_free(ci).overflow
            /\ peer_free(ci).val = 0 <=>
                   (ci.tx_cnt - ci.peer_fwd_cnt = ci.peer_buf_alloc)

\* A connection that has dispatched no packet of its peer: every packet of
\* the families of Traffics advertises a buf_alloc or a fwd_cnt other than 0, and
\* lines 378-383 store both, so credit still at 0/0 means that no packet,
\* hence no Response, was dispatched since connect.
Connecting(conn) ==
    /\ conn # <<>>
    /\ conn[1].peer_buf_alloc = 0
    /\ conn[1].peer_fwd_cnt = 0

\* C24 (as claimed): a send called on a connection for which no Response
\* was dispatched yet, whatever the payload length, emits no data packet
\* and leaves tx_cnt at 0.
C24_NoDataBeforeResponse ==
    (last.op = "send" /\ Connecting(last.pre)) =>
        /\ DataPackets(last.emitted) = {}
        /\ connection_info # <<>>
        /\ connection_info[1].tx_cnt = 0

\* C25 (as claimed): a connect, send, shutdown, force_close or poll_recv
\* whose packet could not be placed on the TX queue returns the queue's
\* error, emits nothing, and leaves connection_info exactly as it was before
\* the call.
C25_TxFailureKeepsState ==
    (/\ last.op \in {"connect", "send", "shutdown", "force_close", "poll_recv"}
     /\ last.result = "QueueError") =>
        /\ last.emitted = <<>>
        /\ connection_info = last.pre

====
